---- MODULE Spec2Model ----
(***************************************************************************)
(* Model of src/src/extract_logs.py: LogExtractor.extract_logs and         *)
(* LogExtractor._binary_search_date_position.                              *)
(*                                                                         *)
(* Bytes and characters are their code points (10 = LF, 32 = space,        *)
(* 45 = '-', 48..57 = '0'..'9', 97.. = letters, 255 = a byte that is never *)
(* valid UTF-8).  A byte string and a decoded str are both sequences of    *)
(* such numbers.  The only line terminator in the modelled alphabet is LF. *)
(***************************************************************************)
EXTENDS Integers, Sequences, FiniteSets, TLC

\* ---------------------------------------------------------------- bounds
\* largest number of lines in an input file
MaxLines == 3

\* ------------------------------------------------------ program constants
\* line[:10], "YYYY-MM-DD"
DateLen == 10
\* mm.seek(max(0, mid - 10))
SeekBack == 10
\* chunk_size default, 1024 * 1024 * 10
DefaultChunkSize == 10485760

\* ------------------------------------------------------------- characters
LF == 10
SP == 32
DASH == 45
NonText == 255

Digit(d) == 48 + d

IsDigit(c) == c >= 48 /\ c <= 57

DigitVal(c) == c - 48

Max(a, b) == IF a >= b THEN a ELSE b

Min(a, b) == IF a <= b THEN a ELSE b

\* the text "YYYY-MM-DD" of a year, month and day, zero padded
Date(y, m, d) ==
    << Digit(y \div 1000), Digit((y \div 100) % 10), Digit((y \div 10) % 10),
       Digit(y % 10), DASH, Digit(m \div 10), Digit(m % 10), DASH,
       Digit(d \div 10), Digit(d % 10) >>

\* s[a:b] of Python for 0 <= a, with b clipped to the length (0-based, half open)
Slice(s, a, b) == SubSeq(s, a + 1, Min(b, Len(s)))

\* Python's str "<": lexicographic by code point, a proper prefix sorts first
RECURSIVE StrLess(_, _)
StrLess(a, b) ==
    IF b = << >> THEN FALSE
    ELSE IF a = << >> THEN TRUE
    ELSE IF Head(a) # Head(b) THEN Head(a) < Head(b)
    ELSE StrLess(Tail(a), Tail(b))

\* str.startswith
StartsWith(s, p) == Len(s) >= Len(p) /\ SubSeq(s, 1, Len(p)) = p

\* bytes.decode('utf-8', errors='ignore'): ASCII bytes decode to themselves,
\* the byte 0xFF is never part of a valid sequence and is dropped
IsText(b) == b < 128

Decode(bs) == SelectSeq(bs, IsText)

\* str.splitlines(): pieces between terminators, the terminators removed,
\* and no empty piece after a final terminator
RECURSIVE SplitLines(_)
SplitLines(s) ==
    IF s = << >> THEN << >>
    ELSE IF \A i \in 1..Len(s) : s[i] # LF THEN << s >>
    ELSE LET i == CHOOSE k \in 1..Len(s) :
                      s[k] = LF /\ \A j \in 1..(k - 1) : s[j] # LF
         IN << SubSeq(s, 1, i - 1) >> \o SplitLines(SubSeq(s, i + 1, Len(s)))

\* ------------------------------------------------ datetime.strptime model
IsLeap(y) == (y % 4 = 0 /\ y % 100 # 0) \/ y % 400 = 0

DaysInMonth(y, m) ==
    IF m = 2 THEN (IF IsLeap(y) THEN 29 ELSE 28)
    ELSE IF m \in {4, 6, 9, 11} THEN 30 ELSE 31

\* the directive %m: 1[0-2] | 0[1-9] | [1-9]
MonthField(f) ==
    \/ Len(f) = 2 /\ f[1] = Digit(1) /\ f[2] \in {Digit(0), Digit(1), Digit(2)}
    \/ Len(f) = 2 /\ f[1] = Digit(0) /\ IsDigit(f[2]) /\ f[2] # Digit(0)
    \/ Len(f) = 1 /\ IsDigit(f[1]) /\ f[1] # Digit(0)

\* the directive %d: 3[01] | [12]\d | 0[1-9] | [1-9] | " "[1-9]
DayField(f) ==
    \/ Len(f) = 2 /\ f[1] = Digit(3) /\ f[2] \in {Digit(0), Digit(1)}
    \/ Len(f) = 2 /\ f[1] \in {Digit(1), Digit(2)} /\ IsDigit(f[2])
    \/ Len(f) = 2 /\ f[1] \in {Digit(0), SP} /\ IsDigit(f[2]) /\ f[2] # Digit(0)
    \/ Len(f) = 1 /\ IsDigit(f[1]) /\ f[1] # Digit(0)

\* value of a field of one or two characters, a leading space counting as none
FieldVal(f) ==
    IF Len(f) = 1 THEN DigitVal(f[1])
    ELSE IF f[1] = SP THEN DigitVal(f[2])
    ELSE 10 * DigitVal(f[1]) + DigitVal(f[2])

\* the positions at which the text can split into %Y-%m-%d with nothing left
StrptimeSplits(t) ==
    { j \in {7, 8} :
        /\ Len(t) > j
        /\ \A i \in 1..4 : IsDigit(t[i])
        /\ t[5] = DASH
        /\ t[j] = DASH
        /\ MonthField(SubSeq(t, 6, j - 1))
        /\ DayField(SubSeq(t, j + 1, Len(t))) }

YearVal(t) ==
    1000 * DigitVal(t[1]) + 100 * DigitVal(t[2]) + 10 * DigitVal(t[3]) + DigitVal(t[4])

\* datetime.strptime(target_date, '%Y-%m-%d') does not raise ValueError
StrptimeOK(t) ==
    \E j \in StrptimeSplits(t) :
        LET y == YearVal(t)
            m == FieldVal(SubSeq(t, 6, j - 1))
            d == FieldVal(SubSeq(t, j + 1, Len(t)))
        IN y >= 1 /\ d <= DaysInMonth(y, m)

\* ------------------------------------------------------- next_date (l.54)
\* int(target_date[-2:]) for the endings strptime lets through
IntOfLast2(t) ==
    LET a == t[Len(t) - 1]
        b == t[Len(t)]
    IN IF a = DASH THEN 0 - DigitVal(b)
       ELSE IF a = SP THEN DigitVal(b)
       ELSE 10 * DigitVal(a) + DigitVal(b)

\* format(n, "02d") for -9 <= n <= 99
Format02d(n) ==
    IF n < 0 THEN << DASH, Digit(0 - n) >>
    ELSE << Digit(n \div 10), Digit(n % 10) >>

\* f"{target_date[:8]}{int(target_date[-2:]) + 1:02d}"
NextDate(t) == Slice(t, 0, 8) \o Format02d(IntOfLast2(t) + 1)

\* ------------------------------------------------------ mmap random access
\* position after mm.readline() from position pos: just past the next LF,
\* or the end of the mapping when no LF follows
ReadlineEnd(f, pos) ==
    IF \E k \in (pos + 1)..Len(f) : f[k] = LF
    THEN CHOOSE k \in (pos + 1)..Len(f) :
             f[k] = LF /\ \A j \in (pos + 1)..(k - 1) : f[j] # LF
    ELSE Len(f)

\* the bytes mm.readline() returns from position pos
Readline(f, pos) == SubSeq(f, pos + 1, ReadlineEnd(f, pos))

\* the midpoint rounded up instead of down
MidRoundUp(l, r) == (l + r + 1) \div 2

\* mid = (left + right) // 2
Mid(l, r) == (l + r) \div 2

\* raw bytes of the second readline after mm.seek(max(0, mid - 10))
ProbeBytes(f, mid) ==
    Readline(f, ReadlineEnd(f, Max(0, mid - SeekBack)))

\* line = mm.readline().decode('utf-8', errors='ignore')
ProbeLine(f, mid) == Decode(ProbeBytes(f, mid))

\* one iteration of "while left < right" against the key `key`:
\* the new (left, right)
SearchStep(f, l, r, key) ==
    LET mid == Mid(l, r)
        line == ProbeLine(f, mid)
    IN IF line = << >> THEN << l, mid >>
       ELSE IF StrLess(Slice(line, 0, DateLen), key) THEN << mid + 1, r >>
       ELSE << l, mid >>

\* the margin added to the lower bound instead of taken off it
StartPosForward(l, chunk) == Max(0, l + chunk)

\* start_pos = max(0, left - self.chunk_size)
StartPos(l, chunk) == Max(0, l - chunk)

\* end_pos = min(self.file_size, right + self.chunk_size)
EndPos(fs, r, chunk) == Min(fs, r + chunk)

\* ------------------------------------------------------------ scan phase
\* f.read(min(self.chunk_size, end_pos - f.tell()))
ReadChunk(f, p, chunk, e) == SubSeq(f, p + 1, Min(Len(f), p + Min(chunk, e - p)))

\* the lines of one chunk that the loop body looks at
ChunkLines(bs, sp) ==
    LET lines == SplitLines(Decode(bs))
    IN IF sp # 0 /\ Len(lines) > 0 THEN Tail(lines) ELSE lines

\* the appended output lines: those with line.startswith(target_date)
RECURSIVE Matching(_, _)
Matching(lines, t) ==
    IF lines = << >> THEN << >>
    ELSE (IF StartsWith(Head(lines), t) THEN << Head(lines) >> ELSE << >>)
         \o Matching(Tail(lines), t)

\* ------------------------------------------------------------------ inputs
\* line bodies the input files are built from (each is followed by LF)
LineSet ==
    { Date(2024, 1, 1) \o << SP, 97 >>,
      Date(2024, 1, 2) \o << SP, 98, 99 >>,
      Date(2024, 1, 31) \o << SP, 100 >>,
      Date(2024, 1, 1) \o << SP >> \o Date(2024, 1, 2),
      << >>,
      << NonText, NonText >> }

RECURSIVE Join(_)
Join(ls) == IF ls = << >> THEN << >> ELSE Head(ls) \o << LF >> \o Join(Tail(ls))

Files == { Join(ls) : ls \in UNION { [1..n -> LineSet] : n \in 0..MaxLines } }

\* command-line dates: three real dates, a lenient spelling strptime accepts,
\* and two strings it rejects
Targets ==
    { Date(2024, 1, 2), Date(2024, 1, 31), Date(2023, 12, 31),
      << 50, 48, 50, 52, DASH, 49, DASH, 53 >>,
      Date(2024, 2, 30), Date(2024, 13, 1) }

\* --chunk-size values
ChunkSizes == { 0, 1, 12, 24, DefaultChunkSize }

\* ------------------------------------------------------------------- state
VARIABLES
    file,           \* content of self.filepath
    target_date,    \* extract_logs argument
    chunk_size,     \* self.chunk_size
    output_given,   \* output_file is not None
    pc,             \* position in extract_logs
    left, right,    \* search window of _binary_search_date_position
    start_pos, end_pos,
    next_date,
    pos,            \* f.tell() of the scan
    out,            \* lines written to out_f, in order
    matches_found,
    dir_made,       \* Path('output').mkdir was called
    mm_open,        \* the input is opened and mapped
    in_open,        \* the input is opened for the scan
    out_open        \* the output file is created and opened

vars == << file, target_date, chunk_size, output_given, pc, left, right,
           start_pos, end_pos, next_date, pos, out, matches_found,
           dir_made, mm_open, in_open, out_open >>

inputs == << file, target_date, chunk_size, output_given >>

file_size == Len(file)

Init ==
    /\ file \in Files
    /\ target_date \in Targets
    /\ chunk_size \in ChunkSizes
    /\ output_given \in BOOLEAN
    /\ pc = "validate"
    /\ left = 0 /\ right = 0
    /\ start_pos = 0 /\ end_pos = 0
    /\ next_date = << >>
    /\ pos = 0
    /\ out = << >>
    /\ matches_found = 0
    /\ dir_made = FALSE
    /\ mm_open = FALSE
    /\ in_open = FALSE
    /\ out_open = FALSE

\* the date check left out: every target goes on to the extraction
ValidateNothing ==
    /\ pc = "validate"
    /\ pc' = "resolve_output"
    /\ UNCHANGED << inputs, left, right, start_pos, end_pos, next_date, pos,
                    out, matches_found, dir_made, mm_open, in_open, out_open >>

\* l.82-86: datetime.strptime, ValueError on failure
Validate ==
    /\ pc = "validate"
    /\ pc' = IF StrptimeOK(target_date) THEN "resolve_output" ELSE "invalid_date"
    /\ UNCHANGED << inputs, left, right, start_pos, end_pos, next_date, pos,
                    out, matches_found, dir_made, mm_open, in_open, out_open >>

\* l.89-92: default output path, creating the directory
ResolveOutput ==
    /\ pc = "resolve_output"
    /\ dir_made' = ~output_given
    /\ pc' = "mmap"
    /\ UNCHANGED << inputs, left, right, start_pos, end_pos, next_date, pos,
                    out, matches_found, mm_open, in_open, out_open >>

\* l.26-29: open and map the input; mmap raises ValueError on an empty file
OpenMmap ==
    /\ pc = "mmap"
    /\ IF file_size = 0
       THEN /\ pc' = "mmap_error"
            /\ UNCHANGED << left, right, mm_open >>
       ELSE /\ pc' = "search1"
            /\ mm_open' = TRUE
            /\ left' = 0
            /\ right' = file_size
    /\ UNCHANGED << inputs, start_pos, end_pos, next_date, pos, out,
                    matches_found, dir_made, in_open, out_open >>

\* l.32-49: one iteration of the first loop
Search1Step ==
    /\ pc = "search1"
    /\ left < right
    /\ left' = SearchStep(file, left, right, target_date)[1]
    /\ right' = SearchStep(file, left, right, target_date)[2]
    /\ UNCHANGED << inputs, pc, start_pos, end_pos, next_date, pos, out,
                    matches_found, dir_made, mm_open, in_open, out_open >>

\* l.51-55: leave the first loop, set up the second
Search1Exit ==
    /\ pc = "search1"
    /\ ~(left < right)
    /\ start_pos' = StartPos(left, chunk_size)
    /\ next_date' = NextDate(target_date)
    /\ left' = StartPos(left, chunk_size)
    /\ right' = file_size
    /\ pc' = "search2"
    /\ UNCHANGED << inputs, end_pos, pos, out, matches_found, dir_made,
                    mm_open, in_open, out_open >>

\* l.57-74: one iteration of the second loop
Search2Step ==
    /\ pc = "search2"
    /\ left < right
    /\ left' = SearchStep(file, left, right, next_date)[1]
    /\ right' = SearchStep(file, left, right, next_date)[2]
    /\ UNCHANGED << inputs, pc, start_pos, end_pos, next_date, pos, out,
                    matches_found, dir_made, mm_open, in_open, out_open >>

\* l.76-79: leave the second loop, close the mapping, return
Search2Exit ==
    /\ pc = "search2"
    /\ ~(left < right)
    /\ end_pos' = EndPos(file_size, right, chunk_size)
    /\ mm_open' = FALSE
    /\ pc' = "open_files"
    /\ UNCHANGED << inputs, left, right, start_pos, next_date, pos, out,
                    matches_found, dir_made, in_open, out_open >>

\* l.98-101: open input and output, seek to start_pos
OpenFiles ==
    /\ pc = "open_files"
    /\ in_open' = TRUE
    /\ out_open' = TRUE
    /\ matches_found' = 0
    /\ pos' = start_pos
    /\ pc' = "scan"
    /\ UNCHANGED << inputs, left, right, start_pos, end_pos, next_date, out,
                    dir_made, mm_open >>

\* l.103-117: one iteration of the scan loop; an empty read breaks out
ScanStep ==
    /\ pc = "scan"
    /\ pos < end_pos
    /\ LET chunk == ReadChunk(file, pos, chunk_size, end_pos)
           found == Matching(ChunkLines(chunk, start_pos), target_date)
       IN IF chunk = << >>
          THEN /\ pc' = "done"
               /\ in_open' = FALSE
               /\ UNCHANGED << pos, out, matches_found >>
          ELSE /\ pos' = pos + Len(chunk)
               /\ out' = out \o found
               /\ matches_found' = matches_found + Len(found)
               /\ UNCHANGED << pc, in_open >>
    /\ UNCHANGED << inputs, left, right, start_pos, end_pos, next_date,
                    dir_made, mm_open, out_open >>

\* l.103, 119-120: the cursor reached end_pos
ScanExit ==
    /\ pc = "scan"
    /\ ~(pos < end_pos)
    /\ pc' = "done"
    /\ in_open' = FALSE
    /\ UNCHANGED << inputs, left, right, start_pos, end_pos, next_date, pos,
                    out, matches_found, dir_made, mm_open, out_open >>

Next ==
    \/ Validate
    \/ ResolveOutput
    \/ OpenMmap
    \/ Search1Step
    \/ Search1Exit
    \/ Search2Step
    \/ Search2Exit
    \/ OpenFiles
    \/ ScanStep
    \/ ScanExit

Spec == Init /\ [][Next]_vars

\* =================================================================== claims
\* --------------------------------------------- vocabulary of the claims
\* the file as newline-terminated records: begin offset, offset just past
\* the terminator, and the bytes before the terminator
RECURSIVE RecordsFrom(_, _)
RecordsFrom(f, p) ==
    IF p >= Len(f) THEN << >>
    ELSE LET nl == { k \in (p + 1)..Len(f) : f[k] = LF }
             e == IF nl = {} THEN Len(f)
                  ELSE CHOOSE k \in nl : \A j \in nl : k <= j
             body == SubSeq(f, p + 1, IF nl = {} THEN e ELSE e - 1)
         IN << [begin |-> p, end |-> e, body |-> body] >> \o RecordsFrom(f, e)

Records(f) == RecordsFrom(f, 0)

\* the date key of a record: its first 10 bytes
KeyOf(rec) == SubSeq(rec.body, 1, Min(DateLen, Len(rec.body)))

HasKey(rec, d) == KeyOf(rec) = d

\* keys never decrease along the file
SortedByKey(f) ==
    LET rs == Records(f)
    IN \A i, j \in 1..Len(rs) : i < j => ~StrLess(KeyOf(rs[j]), KeyOf(rs[i]))

\* bodies of the records of rs with key d, in order
RECURSIVE BodiesWithKey(_, _)
BodiesWithKey(rs, d) ==
    IF rs = << >> THEN << >>
    ELSE (IF HasKey(Head(rs), d) THEN << Head(rs).body >> ELSE << >>)
         \o BodiesWithKey(Tail(rs), d)

\* the records lying entirely inside [s, e)
RECURSIVE RecordsWithin(_, _, _)
RecordsWithin(rs, s, e) ==
    IF rs = << >> THEN << >>
    ELSE (IF Head(rs).begin >= s /\ Head(rs).end <= e
          THEN << Head(rs) >> ELSE << >>)
         \o RecordsWithin(Tail(rs), s, e)

\* the records with at least one byte inside [s, e)
RECURSIVE RecordsTouching(_, _, _)
RecordsTouching(rs, s, e) ==
    IF rs = << >> THEN << >>
    ELSE (IF Head(rs).begin < e /\ Head(rs).end > s
          THEN << Head(rs) >> ELSE << >>)
         \o RecordsTouching(Tail(rs), s, e)

\* a is b with some elements left out, the order kept
RECURSIVE IsSubseq(_, _)
IsSubseq(a, b) ==
    IF a = << >> THEN TRUE
    ELSE IF b = << >> THEN FALSE
    ELSE IF Head(a) = Head(b) THEN IsSubseq(Tail(a), Tail(b))
    ELSE IsSubseq(a, Tail(b))

\* the calendar day after year y, month m, day d, as "YYYY-MM-DD"
DayAfter(y, m, d) ==
    IF d < DaysInMonth(y, m) THEN Date(y, m, d + 1)
    ELSE IF m < 12 THEN Date(y, m + 1, 1)
    ELSE Date(y + 1, 1, 1)

\* the calendar successor of a date text that strptime accepts
CalendarSuccessor(t) ==
    LET j == CHOOSE k \in StrptimeSplits(t) : TRUE
    IN DayAfter(YearVal(t), FieldVal(SubSeq(t, 6, j - 1)),
                FieldVal(SubSeq(t, j + 1, Len(t))))

\* a probed line that is not a dated record: fewer than 10 bytes before the
\* terminator, or some byte that is not text
Malformed(bs) ==
    /\ bs # << >>
    /\ LET body == IF bs[Len(bs)] = LF THEN SubSeq(bs, 1, Len(bs) - 1) ELSE bs
       IN Len(body) < DateLen \/ \E i \in 1..Len(body) : ~IsText(body[i])

Searching == pc \in { "search1", "search2" }

Located == pc \in { "open_files", "scan", "done" }

\* ------------------------------------------------------------------- C1
\* C1: on a file sorted by date key, with a valid target and a margin >= 1,
\* the output is exactly the file's lines whose key is the target, in file
\* order, none missing, duplicated or added.
C1_ExactSubsequence ==
    (pc = "done" /\ SortedByKey(file) /\ chunk_size >= 1)
        => out = BodiesWithKey(Records(file), target_date)

\* ------------------------------------------------------------------- C2
\* C2: the scan of a window [start, end) with any granularity >= 1 classifies
\* every line of the window whole and exactly once: every line lying inside
\* the window whose key is the target is emitted (none lost), and what is
\* emitted is, in order, whole lines of the file that touch the window and
\* have the target as key (no truncated fragment, no duplicate).
C2_WholeLinesOnce ==
    (pc = "done" /\ chunk_size >= 1)
        => LET rs == Records(file)
           IN /\ IsSubseq(BodiesWithKey(RecordsWithin(rs, start_pos, end_pos),
                                        target_date), out)
              /\ IsSubseq(out, BodiesWithKey(RecordsTouching(rs, start_pos, end_pos),
                                             target_date))

\* ------------------------------------------------------------------- C3
\* C3: on a file sorted by date key, for every margin >= 0, every line whose
\* key is the target lies entirely inside [start_pos, end_pos).
C3_WindowCoversTarget ==
    (Located /\ SortedByKey(file))
        => \A i \in 1..Len(Records(file)) :
               HasKey(Records(file)[i], target_date)
                   => /\ Records(file)[i].begin >= start_pos
                      /\ Records(file)[i].end <= end_pos

\* ------------------------------------------------------------------- C4
\* C4: for a target in YYYY-MM-DD form, the key the second search compares
\* against is the calendar successor of the target date, rolling over month
\* and year ends.
C4_NextDayIsCalendarSuccessor ==
    ((pc = "search2" \/ Located) /\ Len(target_date) = DateLen)
        => next_date = CalendarSuccessor(target_date)

\* ------------------------------------------------------------------- C5
\* C5: when no line of the file has the target as its key, nothing is
\* written and the match count is 0.
C5_NoMatchNoOutput ==
    (pc = "done" /\ BodiesWithKey(Records(file), target_date) = << >>)
        => (out = << >> /\ matches_found = 0)

\* ------------------------------------------------------------------- C6
\* C6: when strptime rejects the target date, extract_logs stops with the
\* invalid-date error before anything else: no output directory or file is
\* created, the input is neither mapped nor opened, no search step has moved
\* the window and nothing is written.
C6_InvalidDateFailsFirst ==
    (~StrptimeOK(target_date) /\ pc # "validate")
        => /\ pc = "invalid_date"
           /\ ~dir_made /\ ~mm_open /\ ~in_open /\ ~out_open
           /\ left = 0 /\ right = 0 /\ next_date = << >>
           /\ out = << >> /\ matches_found = 0

\* a rejected date on a file that does hold lines
C6_Witness ==
    /\ pc = "invalid_date"
    /\ target_date = Date(2024, 2, 30)
    /\ file_size > 0

\* ------------------------------------------------------------------- C7
\* C7: in both searches, on entry, after every iteration and on exit,
\* 0 <= left <= right <= fileSize.
C7_WindowInvariant ==
    (Searching \/ Located) => (0 <= left /\ left <= right /\ right <= file_size)

\* the second search entered with left = lowerBound - margin > 0
C7_Witness ==
    /\ pc = "search2"
    /\ left = start_pos /\ start_pos > 0 /\ chunk_size > 0
    /\ right = file_size /\ left < right

\* ------------------------------------------------------------------- C8
\* C8: a search step whose probed line is malformed (shorter than 10 bytes,
\* blank, or holding non-text bytes) sets right = mid and leaves left alone.
C8_MalformedShrinksRight ==
    [][ (Searching /\ pc' = pc /\ left < right
         /\ Malformed(ProbeBytes(file, Mid(left, right))))
            => (right' = Mid(left, right) /\ left' = left) ]_vars

\* ------------------------------------------------------------------- C9
\* C9: on an empty file with a valid target, the locator returns (0, 0)
\* without an error and the extraction ends with no output and count 0.
C9_EmptyFileEmptyWindow ==
    (file_size = 0 /\ StrptimeOK(target_date)
     /\ pc \notin { "validate", "resolve_output", "mmap" })
        => /\ pc \in { "open_files", "scan", "done" }
           /\ start_pos = 0 /\ end_pos = 0
           /\ out = << >> /\ matches_found = 0

\* ------------------------------------------------------------------ C10
\* a bound on the number of steps still to come
Rank ==
    LET B == file_size + 2
    IN CASE pc = "validate" -> 6 * B
         [] pc = "resolve_output" -> 5 * B
         [] pc = "mmap" -> 4 * B + 1
         [] pc = "search1" -> 3 * B + 1 + (right - left)
         [] pc = "search2" -> 2 * B + 1 + (right - left)
         [] pc = "open_files" -> 2 * B
         [] pc = "scan" -> 1 + (IF pos < end_pos THEN end_pos - pos ELSE 0)
         [] OTHER -> 0

\* C10: every extraction terminates: each iteration of either search loop
\* strictly shrinks right - left and the loop exits with left = right, each
\* iteration of the scan loop moves the cursor forward without passing end_pos
\* or stops on an empty read, and every step lowers a natural-number rank.
C10_Terminates ==
    [][ /\ Rank' < Rank /\ Rank' >= 0
        /\ (Searching /\ pc' = pc)
               => (right' - left' < right - left /\ left' <= right')
        /\ (Searching /\ pc' # pc) => left = right
        /\ (pc = "scan" /\ pc' = "scan") => (pos < pos' /\ pos' <= end_pos)
        /\ (pc = "scan" /\ pc' # "scan")
               => /\ pc' = "done"
                  /\ \/ pos >= end_pos
                     \/ ReadChunk(file, pos, chunk_size, end_pos) = << >> ]_vars

\* the scan is between two chunks of a window read in several chunks
C10_Witness ==
    /\ pc = "scan"
    /\ start_pos < pos /\ pos < end_pos
    /\ left = right /\ left > 0

====
